---- MODULE Spec2Model ----
(***************************************************************************)
(* Model of mle/integration/github.py: class GitHubIntegration.            *)
(*                                                                         *)
(* The remote API is the environment: every call of _make_request either   *)
(* raises (transport failure) or answers with a page the server chooses:   *)
(* any number of entries up to MaxPageLen, in any order of time, with any  *)
(* dates and authors. A listing names each issue, pull request or commit   *)
(* once. Timestamps are integers; day d spans StartOfDay(d) .. EndOfDay(d).*)
(* One specification per public method: SpecItems (get_issues and          *)
(* get_pull_requests, i.e. _process_items), SpecCommits                    *)
(* (get_commit_history), SpecSource (get_source_code and                   *)
(* get_pull_request_diff) and SpecActivity (get_user_activity, which runs  *)
(* the scans of the first two).                                            *)
(***************************************************************************)
EXTENDS Integers, Sequences, FiniteSets, TLC

\* ---------------------------------------------------------------- bounds
\* number of days callers and the server can name
NumDays == 3
\* largest number of entries the server puts in one page
MaxPageLen == 2
\* number of issues (pull requests) the repository holds
MaxTotal == 3
\* largest limit a caller passes
MaxLimit == 2
\* number of commits the repository holds
MaxCommits == 2
\* number of files of the repository that match file_pattern
MaxFiles == 3

\* ------------------------------------------------------------- constants
\* instants of one day, from 00:00:00 (the first) to 23:59:59 (the last);
\* the source resolves seconds, the model the two ends of a day
DayLen == 2
\* timedelta(days=6): get_user_activity's default period reaches 6 days back
DefaultSpan == 6

\* ---------------------------------------------------------------- values
\* Python's None for an omitted date or limit
None == -1
\* an omitted (falsy) username
NoUser == ""

\* the days callers and the server can name; the DefaultSpan days before the
\* first of them exist only as a default start of get_user_activity
FirstDay == DefaultSpan
Days == FirstDay .. (FirstDay + NumDays - 1)
Dates == {None} \cup Days
Limits == {None} \cup (0 .. MaxLimit)
Usernames == {NoUser, "alice", "bob"}
\* an issue's number is its rank in the repository's listing
Numbers == 1 .. MaxTotal

\* datetime.strptime(d, "%Y-%m-%d").replace(tzinfo=utc): midnight of day d
StartOfDay(d) == d * DayLen

\* datetime.strptime(d, "%Y-%m-%d").replace(hour=23, minute=59, second=59)
EndOfDay(d) == d * DayLen + (DayLen - 1)

\* every created_at / commit date the server can deliver
Times == StartOfDay(FirstDay) .. EndOfDay(FirstDay + NumDays - 1)

\* Python truthiness of limit: None and 0 are falsy
Truthy(x) == x # None /\ x # 0

\* Python truthiness of a date string (an empty string counts as None)
Given(d) == d # None

\* one raw issue / pull request of a page: item['number'], item['created_at']
RawItem(n, t) == [number |-> n, created_at |-> t]

\* a commit's 'author' field: null for a commit not linked to an account
NullAuthor == "null"
Authors == {NullAuthor, "alice"}

\* one raw commit of a page: commit['sha'], commit['commit']['author']['date']
\* and commit['author'] (its login, or null)
RawCommit(n, t, a) == [sha |-> n, date |-> t, author |-> a]

\* sequences over S of length lo .. hi
SeqsUpTo(S, lo, hi) == UNION {[1 .. n -> S] : n \in lo .. hi}

VARIABLES
    op,          \* the public method that was called
    start_date,  \* parameter start_date (a day, or None)
    end_date,    \* parameter end_date (a day, or None)
    username,    \* parameter username
    limit,       \* parameter limit
    pc,          \* position of the running scan
    page,        \* local page of the running scan
    page_items,  \* the part of the current page the for loop has not reached
    items,       \* _process_items: items, number -> created_at (None: absent)
    requests,    \* number of _make_request calls of the running scan
    delivered,   \* number of entries the endpoint has handed out so far
    nonempty,    \* number of non-empty pages the running scan received
    in_window,   \* number of handed out entries that lie within the window
    stop,        \* why the running scan returned
    commits,     \* get_commit_history: commits, the accumulated raw commits
    idx,         \* get_commit_history: index of the commit line 196 is at
    commit_history, \* get_commit_history: commit_history, a set of entries
    scan,        \* the scan that is running: the method called, or the one
                 \* get_user_activity is in
    file,        \* get_source_code: the item get_contents() yielded
    source_code, \* get_source_code: source_code; entry k is that of path k
    diff,        \* get_pull_request_diff: the value returned
    sizes,       \* get_user_activity: len() of the mappings the scans returned
    pr_details,  \* get_user_activity: len(pr_details)
    report       \* get_user_activity: the report returned

params == <<op, start_date, end_date, username, limit>>
itemVars == <<page_items, items, in_window>>
commitVars == <<commits, idx, commit_history>>
scanVars == <<page, requests, delivered, nonempty>>
sourceVars == <<file, source_code, diff>>
activityVars == <<sizes, pr_details, report>>
\* what a step of a scan leaves alone
frame == <<params, scan, sourceVars, activityVars>>

vars == <<op, start_date, end_date, username, limit, pc, page, page_items,
          items, requests, delivered, nonempty, in_window, stop, commits, idx,
          commit_history, scan, file, source_code, diff, sizes, pr_details,
          report>>

\* the inclusive window of section 3 of the specification
InWindow(t) ==
    /\ (Given(start_date) => t >= StartOfDay(start_date))
    /\ (Given(end_date) => t <= EndOfDay(end_date))

\* len(items)
Len_items(its) == Cardinality({n \in Numbers : its[n] # None})

EmptyItems == [n \in Numbers |-> None]

Min(a, b) == IF a < b THEN a ELSE b

\* the pages the server can answer a request for issues / pull requests
\* with: the next entries of the listing, each with any created_at, at most
\* MaxPageLen of them, none (an empty page) once the listing is exhausted
ItemPages ==
    {[i \in 1 .. Len(ts) |-> RawItem(delivered + i, ts[i])] :
        ts \in SeqsUpTo(Times, 0, Min(MaxPageLen, MaxTotal - delivered))}

\* mutant: the comparison of lines 69-72 written with >=
AfterEnd_Inclusive(created_at) ==
    Given(end_date) /\ created_at >= EndOfDay(end_date)

\* mutant: lines 69-72 without replace(hour=23, minute=59, second=59)
AfterEnd_Midnight(created_at) ==
    Given(end_date) /\ created_at > StartOfDay(end_date)

\* lines 69-72: the item is newer than end_date 23:59:59
AfterEnd(created_at) == Given(end_date) /\ created_at > EndOfDay(end_date)

\* mutant: line 73 compares with the day before start_date
BeforeStart_DayEarly(created_at) ==
    Given(start_date) /\ created_at < StartOfDay(start_date - 1)

\* mutant: the comparison of line 73 written with <=
BeforeStart_Inclusive(created_at) ==
    Given(start_date) /\ created_at <= StartOfDay(start_date)

\* line 73: the item is older than start_date 00:00:00
BeforeStart(created_at) ==
    Given(start_date) /\ created_at < StartOfDay(start_date)

\* line 85: the limit is reached
LimitReached(its) == Truthy(limit) /\ Len_items(its) >= limit

\* end of the for loop body: next item, or line 88 and the next request
NextItem ==
    /\ page_items' = Tail(page_items)
    /\ IF Tail(page_items) = <<>>
       THEN page' = page + 1 /\ pc' = "request"
       ELSE UNCHANGED <<page, pc>>

\* lines 61-64: request the next page of issues / pull requests
RequestItemsPage ==
    /\ pc = "request"
    /\ scan \in {"get_issues", "get_pull_requests"}
    /\ \E p \in ItemPages :
          /\ requests' = requests + 1
          /\ delivered' = delivered + Len(p)
          /\ nonempty' = nonempty + (IF p = <<>> THEN 0 ELSE 1)
          /\ in_window' = in_window +
                Cardinality({i \in 1 .. Len(p) : InWindow(p[i].created_at)})
          /\ page_items' = p
          /\ IF p = <<>>
             THEN pc' = "return" /\ stop' = "empty"
             ELSE pc' = "for" /\ UNCHANGED stop
    /\ UNCHANGED <<frame, page, items, commitVars>>

\* line 62: _make_request raises (lines 33-34), the scan propagates it
RequestItemsFails ==
    /\ pc = "request"
    /\ scan \in {"get_issues", "get_pull_requests"}
    /\ requests' = requests + 1
    /\ pc' = "raised"
    /\ stop' = "RequestException"
    /\ UNCHANGED <<frame, page, itemVars, delivered, nonempty, commitVars>>

\* lines 66-86: one iteration of the for loop
ProcessItem ==
    /\ pc = "for"
    /\ page_items # <<>>
    /\ LET item == Head(page_items) IN
       IF AfterEnd(item.created_at)
       THEN /\ NextItem
            /\ UNCHANGED <<items, stop>>
       ELSE IF BeforeStart(item.created_at)
       THEN /\ pc' = "return"
            /\ stop' = "start"
            /\ UNCHANGED <<items, page, page_items>>
       ELSE /\ items' = [items EXCEPT ![item.number] = item.created_at]
            /\ IF LimitReached(items')
               THEN /\ pc' = "return"
                    /\ stop' = "limit"
                    /\ UNCHANGED <<page, page_items>>
               ELSE /\ NextItem
                    /\ UNCHANGED stop
    /\ UNCHANGED <<frame, requests, delivered, nonempty, in_window,
                   commitVars>>

\* the locals of a scan that starts (lines 58-59, 182-183, 195)
FreshScan ==
    /\ page = 1
    /\ page_items = <<>>
    /\ items = EmptyItems
    /\ requests = 0
    /\ delivered = 0
    /\ nonempty = 0
    /\ in_window = 0
    /\ stop = ""
    /\ commits = <<>>
    /\ idx = 1
    /\ commit_history = {}

\* nothing of get_source_code, get_pull_request_diff or get_user_activity
\* has happened
Idle ==
    /\ file = "none"
    /\ source_code = <<>>
    /\ diff = ""
    /\ sizes = <<>>
    /\ pr_details = 0
    /\ report = <<>>

\* a call of get_issues / get_pull_requests (lines 215-235, 47-59)
InitItems ==
    /\ op \in {"get_issues", "get_pull_requests"}
    /\ start_date \in Dates
    /\ end_date \in Dates
    /\ username \in Usernames
    /\ limit \in Limits
    /\ scan = op
    /\ pc = "request"
    /\ FreshScan
    /\ Idle

NextItems == RequestItemsPage \/ RequestItemsFails \/ ProcessItem

SpecItems == InitItems /\ [][NextItems]_vars

\* ------------------------------------------------------ _process_items
\* the entries of the mapping
Included(its) == {n \in Numbers : its[n] # None}

\* the for loop is about to handle this item
AtItem == pc = "for" /\ page_items # <<>>
Item == Head(page_items)

\* C1: with start_date set, no entry of the returned mapping has a
\* created_at earlier than start_date 00:00:00, whatever end_date, username,
\* limit and the pages are.
C1_NeverOlderThanStart ==
    (pc = "return" /\ Given(start_date)) =>
        \A n \in Included(items) : items[n] >= StartOfDay(start_date)

\* C1 witness: a scan with start_date returned entries after meeting an
\* older item.
C1_Witness ==
    /\ pc = "return" /\ stop = "start" /\ Given(start_date)
    /\ Included(items) # {}

\* C2 (as claimed): with limit = L the mapping never holds more than L
\* entries, at any point of the scan.
C2_AtMostLimit == (limit # None) => Len_items(items) <= limit

\* C3 (as claimed): when limit is set and the collected count reaches limit
\* the scan returns at once, also in the middle of a page, and a scan that
\* returned requests nothing and includes nothing more.
C3_StopsAtLimit ==
    [][/\ (AtItem /\ limit # None /\ items' # items
            /\ Len_items(items') >= limit) => pc' = "return"
       /\ (pc = "return") => (requests' = requests /\ items' = items)]_vars

\* C4 (as claimed): no limit and every item within the window: the scan
\* returns every item and makes as many page requests as there are
\* non-empty pages.
C4_RequestsEqualPages ==
    (pc = "return" /\ limit = None /\ in_window = delivered) =>
        /\ Len_items(items) = delivered
        /\ requests = nonempty

\* C4 (amended): no limit and every item within the window: the scan ends
\* on an empty page only, returns every item, and makes one page request
\* per non-empty page plus the request the empty page answers.
C4_RequestsPagesPlusOne ==
    (pc = "return" /\ limit = None /\ in_window = delivered) =>
        /\ stop = "empty"
        /\ Len_items(items) = delivered
        /\ requests = nonempty + 1

\* C4 witness: three non-empty pages, all within a window, no limit.
C4_Witness ==
    /\ pc = "return" /\ limit = None /\ in_window = delivered
    /\ nonempty = 3 /\ Given(start_date) /\ Given(end_date)
    /\ Len_items(items) = 3

\* C5 (as claimed): an item created exactly at start_date 00:00:00 that is
\* not past end_date is included; an item created one time unit earlier is
\* excluded and ends the scan at once; a scan that returned requests
\* nothing and includes nothing more.
C5_StartBoundary ==
    [][/\ (AtItem /\ Given(start_date)
            /\ Item.created_at = StartOfDay(start_date)
            /\ ~ (Given(end_date) /\ Item.created_at > EndOfDay(end_date)))
           => items'[Item.number] = Item.created_at
       /\ (AtItem /\ Given(start_date)
            /\ Item.created_at = StartOfDay(start_date) - 1)
           => (pc' = "return" /\ items' = items)
       /\ (pc = "return") => (requests' = requests /\ items' = items)]_vars

\* C5 (amended): as C5, but the item created one time unit before
\* start_date 00:00:00 ends the scan only when it is not later than
\* end_date 23:59:59; a later one is skipped and the scan goes on.
C5_StartBoundaryWithinEnd ==
    [][/\ (AtItem /\ Given(start_date)
            /\ Item.created_at = StartOfDay(start_date)
            /\ ~ (Given(end_date) /\ Item.created_at > EndOfDay(end_date)))
           => items'[Item.number] = Item.created_at
       /\ (AtItem /\ Given(start_date)
            /\ Item.created_at = StartOfDay(start_date) - 1
            /\ ~ (Given(end_date) /\ Item.created_at > EndOfDay(end_date)))
           => (pc' = "return" /\ items' = items)
       /\ (AtItem /\ Given(start_date)
            /\ Item.created_at = StartOfDay(start_date) - 1
            /\ Given(end_date) /\ Item.created_at > EndOfDay(end_date))
           => (pc' # "return" /\ items' = items)
       /\ (pc = "return") => (requests' = requests /\ items' = items)]_vars

\* C5 witness: the scan included an item created exactly at start_date
\* 00:00:00 and returned on the next one, created one time unit earlier,
\* with the rest of the page unread.
C5_Witness ==
    /\ pc = "return" /\ stop = "start" /\ Given(start_date)
    /\ \E n \in Included(items) : items[n] = StartOfDay(start_date)
    /\ Len(page_items) >= 2
    /\ Head(page_items).created_at = StartOfDay(start_date) - 1

\* C6: an item later than end_date 23:59:59 is skipped: the mapping (and
\* so the count the limit looks at) is unchanged and the scan does not
\* return; no entry of the mapping is later than end_date 23:59:59; an item
\* the scan reaches that lies within the window (one created exactly at
\* end_date 23:59:59 too) is included, whatever was skipped before.
C6_EndSkips ==
    [][/\ (AtItem /\ Given(end_date) /\ Item.created_at > EndOfDay(end_date))
           => (items' = items /\ pc' # "return" /\ stop' = stop)
       /\ (AtItem /\ InWindow(Item.created_at))
           => items'[Item.number] = Item.created_at
       /\ Given(end_date) =>
             \A n \in Included(items') : items'[n] <= EndOfDay(end_date)]_vars

\* C6 witness: the first item was skipped as later than end_date, and a
\* later item, created exactly at end_date 23:59:59, is in the mapping.
C6_Witness ==
    /\ Given(end_date) /\ delivered >= 2
    /\ items[1] = None
    /\ \E n \in Included(items) : n > 1 /\ items[n] = EndOfDay(end_date)

\* -------------------------------------------------- get_commit_history
\* the pages the server can answer a request for commits with: the next
\* commits of the history, each with any date and author, at most
\* MaxPageLen of them, none once the history is exhausted
CommitPages ==
    {[k \in 1 .. Len(cs) |-> RawCommit(delivered + k, cs[k][1], cs[k][2])] :
        cs \in SeqsUpTo(Times \X Authors, 0,
                         Min(MaxPageLen, MaxCommits - delivered))}

\* commits[:limit]
Truncate(cs, n) == SubSeq(cs, 1, Min(n, Len(cs)))

\* lines 185-193: request the next page of commits and accumulate it
RequestCommitsPage ==
    /\ pc = "request"
    /\ scan = "get_commit_history"
    /\ \E p \in CommitPages :
          /\ requests' = requests + 1
          /\ delivered' = delivered + Len(p)
          /\ nonempty' = nonempty + (IF p = <<>> THEN 0 ELSE 1)
          /\ IF p = <<>>
             THEN /\ pc' = "filter"
                  /\ stop' = "empty"
                  /\ UNCHANGED <<commits, page>>
             ELSE IF Truthy(limit) /\ Len(commits \o p) >= limit
             THEN /\ commits' = Truncate(commits \o p, limit)
                  /\ pc' = "filter"
                  /\ stop' = "limit"
                  /\ UNCHANGED page
             ELSE /\ commits' = commits \o p
                  /\ page' = page + 1
                  /\ UNCHANGED <<pc, stop>>
    /\ UNCHANGED <<frame, itemVars, idx, commit_history>>

\* line 186: _make_request raises (lines 33-34), the scan propagates it
RequestCommitsFails ==
    /\ pc = "request"
    /\ scan = "get_commit_history"
    /\ requests' = requests + 1
    /\ pc' = "raised"
    /\ stop' = "RequestException"
    /\ UNCHANGED <<frame, page, itemVars, delivered, nonempty, commitVars>>

\* mutant: the comparison of line 200 written with >
CommitInRange_Exclusive(date) ==
    /\ (~ Given(start_date) \/ date > StartOfDay(start_date))
    /\ (~ Given(end_date) \/ date <= EndOfDay(end_date))

\* lines 200-204: the date conditions of the filter
CommitInRange(date) ==
    /\ (~ Given(start_date) \/ date >= StartOfDay(start_date))
    /\ (~ Given(end_date) \/ date <= EndOfDay(end_date))

\* line 205 subscripts commit['author']: a TypeError when it is null
AuthorRaises(c) == username # NoUser /\ c.author = NullAuthor

\* line 205: not username or commit['author']['login'] == username
AuthorMatches(c) == username = NoUser \/ c.author = username

\* lines 206-211: the entry stored under commit['sha'] (line 208: username
\* is the login, or None for a null author)
HistoryEntry(c) ==
    [sha |-> c.sha, date |-> c.date,
     username |-> IF c.author # NullAuthor THEN c.author ELSE "None"]

\* lines 196-211: one iteration of the filter loop; the conditions of the
\* `and` chain are evaluated left to right, line 205 only when the dates
\* passed
FilterCommit ==
    /\ pc = "filter"
    /\ idx <= Len(commits)
    /\ LET c == commits[idx] IN
       IF ~ CommitInRange(c.date)
       THEN idx' = idx + 1 /\ UNCHANGED <<pc, stop, commit_history>>
       ELSE IF AuthorRaises(c)
       THEN /\ pc' = "raised"
            /\ stop' = "TypeError"
            /\ UNCHANGED <<idx, commit_history>>
       ELSE /\ idx' = idx + 1
            /\ commit_history' =
                  IF AuthorMatches(c)
                  THEN commit_history \cup {HistoryEntry(c)}
                  ELSE commit_history
            /\ UNCHANGED <<pc, stop>>
    /\ UNCHANGED <<frame, page, itemVars, requests, delivered, nonempty, commits>>

\* line 213: return commit_history
ReturnHistory ==
    /\ pc = "filter"
    /\ idx > Len(commits)
    /\ pc' = "return"
    /\ UNCHANGED <<frame, page, itemVars, requests, delivered, nonempty, stop,
                   commitVars>>

\* a call of get_commit_history (lines 174-183)
InitCommits ==
    /\ op = "get_commit_history"
    /\ start_date \in Dates
    /\ end_date \in Dates
    /\ username \in Usernames
    /\ limit \in Limits
    /\ scan = op
    /\ pc = "request"
    /\ FreshScan
    /\ Idle

NextCommits ==
    RequestCommitsPage \/ RequestCommitsFails \/ FilterCommit \/ ReturnHistory

SpecCommits == InitCommits /\ [][NextCommits]_vars

\* the accumulated commits the claims expect in the result
Expected ==
    {c \in {commits[k] : k \in 1 .. Len(commits)} :
        /\ InWindow(c.date)
        /\ (username # NoUser => c.author = username)}

C8_NullAuthorNeverFails == stop # "TypeError"

\* ------------------------------- get_source_code, get_pull_request_diff
\* what get_contents() can yield: an item with inline base64 'content', an
\* item with a 'download_url' only, an item with neither
FileKinds == {"inline", "download", "large"}

\* what obtaining the content of an item can end in (lines 148-155):
\* b64decode / decode succeed or raise; requests.get succeeds, raises
\* without a response (a network error), or raise_for_status raises with
\* the response
Outcomes(kind) ==
    IF kind = "inline" THEN {"ok", "decode error"}
    ELSE IF kind = "download" THEN {"ok", "http error", "network error"}
    ELSE {"ok"}

\* lines 137-143, 146: get_contents() yields the next matching item
YieldFile ==
    /\ pc = "contents"
    /\ Len(source_code) < MaxFiles
    /\ \E k \in FileKinds : file' = k
    /\ pc' = "try"
    /\ UNCHANGED <<params, scan, scanVars, itemVars, commitVars, stop,
                   source_code, diff, activityVars>>

\* line 146: get_contents() is exhausted; line 163 returns source_code
ContentsExhausted ==
    /\ pc = "contents"
    /\ pc' = "return"
    /\ UNCHANGED <<params, scan, scanVars, itemVars, commitVars, stop,
                   sourceVars, activityVars>>

\* line 135: _make_request raises inside get_contents(), outside the try
ContentsFails ==
    /\ pc = "contents"
    /\ pc' = "raised"
    /\ stop' = "RequestException"
    /\ UNCHANGED <<params, scan, scanVars, itemVars, commitVars,
                   sourceVars, activityVars>>

\* lines 147-162: the try block for the yielded item and its handler;
\* line 160 reads e.response.status_code of every RequestException
ProcessFile ==
    /\ pc = "try"
    /\ \E o \in Outcomes(file) :
          IF o = "network error"
          THEN /\ pc' = "raised"
               /\ stop' = "AttributeError"
               /\ UNCHANGED <<file, source_code>>
          ELSE /\ source_code' = Append(source_code,
                    IF o = "decode error" THEN "Unable to process content"
                    ELSE IF o = "http error"
                         THEN "Unable to process content (Status code)"
                    ELSE IF file = "large" THEN "File too large"
                    ELSE "content")
               /\ file' = "none"
               /\ pc' = "contents"
               /\ UNCHANGED stop
    /\ UNCHANGED <<params, scan, scanVars, itemVars, commitVars, diff,
                   activityVars>>

\* lines 251-259: get_pull_request_diff; the handler reads
\* e.response.status_code only when e.response is not None
PullRequestDiff ==
    /\ pc = "request"
    /\ scan = "get_pull_request_diff"
    /\ \E o \in {"ok", "http error", "network error"} :
          diff' = IF o = "ok" THEN "response"
                  ELSE IF o = "http error"
                       THEN "Unable to fetch diff (Status code)"
                  ELSE "Unable to fetch diff"
    /\ requests' = requests + 1
    /\ pc' = "return"
    /\ UNCHANGED <<params, scan, page, delivered, nonempty, itemVars,
                   commitVars, stop, file, source_code, activityVars>>

\* a call of get_source_code or get_pull_request_diff
InitSource ==
    /\ op \in {"get_source_code", "get_pull_request_diff"}
    /\ start_date = None /\ end_date = None
    /\ username = NoUser /\ limit = None
    /\ scan = op
    /\ pc = IF op = "get_source_code" THEN "contents" ELSE "request"
    /\ FreshScan
    /\ Idle

NextSource ==
    YieldFile \/ ContentsExhausted \/ ContentsFails \/ ProcessFile
        \/ PullRequestDiff

SpecSource == InitSource /\ [][NextSource]_vars

\* C9 (as claimed): a failure while obtaining the content of one matched
\* file never aborts get_source_code: whenever the call ends by raising,
\* it is the listing of the contents that failed.
C9_FailureNeverAborts == (pc = "raised") => (stop = "RequestException")

\* ---------------------------------------------------- get_user_activity
\* a scan starts with fresh locals (lines 47-59, 174-183, 195)
StartScan(name) ==
    /\ scan' = name
    /\ pc' = IF name = "get_pull_request_commits"
             THEN "pr_commits" ELSE "request"
    /\ page' = 1
    /\ page_items' = <<>>
    /\ items' = EmptyItems
    /\ requests' = 0
    /\ delivered' = 0
    /\ nonempty' = 0
    /\ in_window' = 0
    /\ stop' = ""
    /\ commits' = <<>>
    /\ idx' = 1
    /\ commit_history' = {}

\* lines 288-302: the period. An end_date that is given goes through
\* datetime.replace(..., zinfo=timezone.utc) on line 293, which raises
\* TypeError: replace() has no keyword zinfo. An omitted one becomes today,
\* and an omitted start_date the day DefaultSpan days before end_date. Line
\* 302 then calls get_commit_history(start_date, end_date, username).
ActivityPeriod ==
    /\ op = "get_user_activity"
    /\ pc = "dates"
    /\ IF end_date # None
       THEN /\ pc' = "raised"
            /\ stop' = "TypeError"
            /\ UNCHANGED <<start_date, end_date, scan, scanVars, itemVars,
                           commitVars>>
       ELSE \E today \in Days :
               /\ end_date' = today
               /\ start_date' = IF start_date = None
                                 THEN today - DefaultSpan
                                 ELSE start_date
               /\ StartScan("get_commit_history")
    /\ UNCHANGED <<op, username, limit, sourceVars, activityVars>>

\* len() of the mapping the running scan returns
Returned ==
    IF scan = "get_commit_history"
    THEN Cardinality(commit_history)
    ELSE Len_items(items)

\* lines 302-304: a scan returned to get_user_activity, which calls the
\* next one with the same period and username; after get_issues it goes on
\* to the loop of lines 313-322
ActivityNextScan ==
    /\ op = "get_user_activity"
    /\ pc = "return"
    /\ scan \in {"get_commit_history", "get_pull_requests", "get_issues"}
    /\ sizes' = Append(sizes, Returned)
    /\ IF scan = "get_commit_history" THEN StartScan("get_pull_requests")
       ELSE IF scan = "get_pull_requests" THEN StartScan("get_issues")
       ELSE StartScan("get_pull_request_commits")
    /\ UNCHANGED <<params, sourceVars, pr_details, report>>

\* lines 313-322: get_pull_request_commits for the next pull request; the
\* request answers or raises
ActivityPrCommits ==
    /\ op = "get_user_activity"
    /\ pc = "pr_commits"
    /\ pr_details < sizes[2]
    /\ requests' = requests + 1
    /\ \/ pr_details' = pr_details + 1 /\ UNCHANGED <<pc, stop>>
       \/ pc' = "raised" /\ stop' = "RequestException" /\ UNCHANGED pr_details
    /\ UNCHANGED <<params, scan, page, delivered, nonempty, itemVars,
                   commitVars, sourceVars, sizes, report>>

\* lines 324-358: the report
ActivityReport ==
    /\ op = "get_user_activity"
    /\ pc = "pr_commits"
    /\ pr_details = sizes[2]
    /\ report' = <<[username |-> username,
                    start |-> start_date,
                    end |-> end_date,
                    total_commits |-> sizes[1],
                    total_pull_requests |-> sizes[2],
                    total_issues |-> sizes[3]]>>
    /\ scan' = op
    /\ pc' = "return"
    /\ UNCHANGED <<params, scanVars, itemVars, commitVars, stop, sourceVars,
                   sizes, pr_details>>

\* a call of get_user_activity(username, start_date, end_date)
InitActivity ==
    /\ op = "get_user_activity"
    /\ start_date \in Dates
    /\ end_date \in Dates
    /\ username \in Usernames
    /\ limit = None
    /\ scan = op
    /\ pc = "dates"
    /\ FreshScan
    /\ Idle

NextActivity ==
    \/ ActivityPeriod \/ ActivityNextScan \/ ActivityPrCommits
    \/ ActivityReport
    \/ NextCommits
    \/ NextItems

SpecActivity == InitActivity /\ [][NextActivity]_vars

\* C10 (as claimed): without a transport failure get_user_activity
\* completes with a report for every combination of given and omitted
\* dates: the call never ends in a TypeError.
C10_CompletesForEveryPeriod == ~ (pc = "raised" /\ stop = "TypeError")

====
